---- MODULE Spec2Model ----
(***************************************************************************)
(* Verification model of the framework-controller job model                *)
(* (src/unnamed/part_000) and of the user model                            *)
(* (src/src/rest-server/src/models/v2/user.js).                            *)
(*                                                                         *)
(* Strings that the code inspects character by character (job identifiers, *)
(* controller names, execution types) are sequences of ASCII codes, so     *)
(* that lower-casing, the [^a-z0-9] filter and hex encoding are computed   *)
(* the way the code computes them.                                         *)
(***************************************************************************)
EXTENDS Integers, Sequences, FiniteSets, TLC

VARIABLES
  codec,   \* name codec: the identifier, its controller name, the decoded name
  mapper,  \* state mapper: controller state, exit code, the job state returned
  builder, \* spec builder: the arguments and the framework description built
  frameworks, \* the controller's store: controller name -> framework object
  client,     \* the last invocation of the controller client
  submitted,  \* history: controller name -> the text put() submitted under it
  users,      \* the user store: username -> user record
  user,       \* the last invocation of the user model that has completed
  inflight    \* per caller: its createUserIfNonExistent between its two awaits

vars == <<codec, mapper, builder, frameworks, client, submitted, users, user, inflight>>

\* the variables of the user model and of the store behind it
userVars == <<users, user, inflight>>

\* the variables of the controller client and of the controller behind it
clientVars == <<frameworks, client, submitted>>

(***************************************************************************)
(* Bounds of the model.                                                    *)
(***************************************************************************)
\* longest job-name part of an identifier fed to the name codec
MaxJobLen == 3

(***************************************************************************)
(* Characters and JavaScript string primitives.                            *)
(***************************************************************************)
\* the separator '~' of username~jobName
Tilde == 126

\* the literal 'unknown'
unknown == <<117, 110, 107, 110, 111, 119, 110>>

\* the literal marker 'hex'
hex == <<104, 101, 120>>

\* JavaScript's undefined, as a value no string equals
Undefined == <<-1>>

\* a field that has not been computed yet
NotYet == <<-2>>

\* JavaScript's null where a number may stand; a number n is <<n>>
Null == <<>>

Num(n) == <<n>>

\* a unit of the program that a specification does not exercise
Idle == [idle |-> TRUE]

\* String.prototype.startsWith
startsWith(s, p) == Len(s) >= Len(p) /\ SubSeq(s, 1, Len(p)) = p

\* String.prototype.includes for a single character
includes(s, c) == \E i \in 1..Len(s) : s[i] = c

\* String.prototype.replace(/^p/g, ''): drop the literal p at the start
stripPrefix(s, p) == IF startsWith(s, p) THEN SubSeq(s, Len(p) + 1, Len(s)) ELSE s

\* String.prototype.toLowerCase on ASCII
toLowerCase(s) == [i \in 1..Len(s) |-> IF s[i] \in 65..90 THEN s[i] + 32 ELSE s[i]]

\* the character class [a-z0-9]
IsAlnumLower(c) == c \in 97..122 \/ c \in 48..57

\* one hex digit (lower case) of a nibble
HexDigit(n) == IF n < 10 THEN 48 + n ELSE 87 + n

\* value of a hex digit, -1 when the character is not one
HexVal(c) ==
  IF c \in 48..57 THEN c - 48
  ELSE IF c \in 97..102 THEN c - 87
  ELSE IF c \in 65..70 THEN c - 55
  ELSE -1

\* Buffer.from(s).toString('hex'): two digits per byte (ASCII input)
toHex(s) ==
  [i \in 1..(2 * Len(s)) |->
     IF i % 2 = 1 THEN HexDigit(s[(i + 1) \div 2] \div 16)
                  ELSE HexDigit(s[i \div 2] % 16)]

\* Buffer.from(s, 'hex'): whole pairs of hex digits, up to the first bad pair
fromHex(s) ==
  LET pairs == Len(s) \div 2
      ok(k) == HexVal(s[2 * k - 1]) >= 0 /\ HexVal(s[2 * k]) >= 0
      good == {n \in 0..pairs : \A k \in 1..n : ok(k)}
      n == CHOOSE m \in good : \A o \in good : o <= m
  IN  [k \in 1..n |-> 16 * HexVal(s[2 * k - 1]) + HexVal(s[2 * k])]

\* Buffer.prototype.toString('ascii'): the high bit of each byte is dropped
toAscii(b) == [i \in 1..Len(b) |-> b[i] % 128]

\* line terminators, which '.' of a regular expression does not match
IsLineTerminator(c) == c = 10 \/ c = 13

\* s.split(/~(.+)/)[0]: the text before the first '~' that the pattern
\* matches, the whole string when it matches nowhere
splitHead(s) ==
  LET starts == {i \in 1..(Len(s) - 1) : s[i] = Tilde /\ ~IsLineTerminator(s[i + 1])}
  IN  IF starts = {} THEN s
      ELSE LET i == CHOOSE m \in starts : \A o \in starts : m <= o
           IN  SubSeq(s, 1, i - 1)

\* s.split(/~(.+)/)[1]: the capture of the first match, undefined without one
splitTail(s) ==
  LET starts == {i \in 1..(Len(s) - 1) : s[i] = Tilde /\ ~IsLineTerminator(s[i + 1])}
  IN  IF starts = {} THEN Undefined
      ELSE LET i == CHOOSE m \in starts : \A o \in starts : m <= o
               stops == {j \in (i + 1)..Len(s) : IsLineTerminator(s[j])}
               e == IF stops = {} THEN Len(s)
                    ELSE (CHOOSE m \in stops : \A o \in stops : m <= o) - 1
           IN  SubSeq(s, i + 1, e)

(***************************************************************************)
(* Name codec.                                                             *)
(***************************************************************************)
convertName(name) == SelectSeq(toLowerCase(name), IsAlnumLower)

encodeName(name) ==
  IF startsWith(name, unknown) \/ ~includes(name, Tilde)
    THEN convertName(stripPrefix(name, unknown))
    ELSE hex \o toHex(name)

decodeNameLastTilde(name) ==
  IF startsWith(name, hex)
    THEN LET f == toAscii(fromHex(stripPrefix(name, hex)))
             at == {i \in 1..Len(f) : f[i] = Tilde}
         IN  IF at = {} THEN Undefined
             ELSE SubSeq(f, (CHOOSE m \in at : \A o \in at : o <= m) + 1, Len(f))
    ELSE name

decodeName(name) ==
  IF startsWith(name, hex)
    THEN splitTail(toAscii(fromHex(stripPrefix(name, hex))))
    ELSE name

(***************************************************************************)
(* Inputs of the name codec.                                               *)
(***************************************************************************)
\* '~', 'a', 'B', '-', '0'
JobChars == {Tilde, 97, 66, 45, 48}

SeqsUpTo(S, n) == UNION {[1..k -> S] : k \in 0..n}

\* '', 'a', 'A1', 'unknown', 'unknownb', 'unknow', 'hex'
UserNames ==
  { <<>>, <<97>>, <<65, 49>>, unknown, unknown \o <<98>>,
    <<117, 110, 107, 110, 111, 119>>, hex }

JobNames == SeqsUpTo(JobChars, MaxJobLen) \ {<<>>}

\* identifiers username~jobName, and names without a separator
Identifiers ==
  {u \o <<Tilde>> \o j : u \in UserNames, j \in JobNames}
    \cup {u \o j : u \in UserNames, j \in SeqsUpTo({97, 66, 45}, 2)}

(***************************************************************************)
(* Specification of the name codec: an identifier is encoded, then the     *)
(* controller name is decoded.                                             *)
(***************************************************************************)
CodecInit ==
  /\ \E id \in Identifiers :
       codec = [name |-> id, encoded |-> NotYet, decoded |-> NotYet]
  /\ mapper = Idle
  /\ builder = Idle
  /\ frameworks = Idle
  /\ client = Idle
  /\ submitted = Idle
  /\ users = Idle
  /\ user = Idle
  /\ inflight = Idle

Encode ==
  /\ codec.encoded = NotYet
  /\ codec' = [codec EXCEPT !.encoded = encodeName(codec.name)]
  /\ UNCHANGED <<mapper, builder, clientVars, userVars>>

Decode ==
  /\ codec.encoded # NotYet
  /\ codec.decoded = NotYet
  /\ codec' = [codec EXCEPT !.decoded = decodeName(codec.encoded)]
  /\ UNCHANGED <<mapper, builder, clientVars, userVars>>

CodecNext == Encode \/ Decode

SpecCodec == CodecInit /\ [][CodecNext]_vars

\* the job-name part of an identifier: everything after its first '~'
JobNameOf(id) ==
  LET at == {i \in 1..Len(id) : id[i] = Tilde}
  IN  SubSeq(id, (CHOOSE m \in at : \A o \in at : m <= o) + 1, Len(id))

\* the username part of an identifier: everything before its first '~'
UserNameOf(id) ==
  LET at == {i \in 1..Len(id) : id[i] = Tilde}
  IN  SubSeq(id, 1, (CHOOSE m \in at : \A o \in at : m <= o) - 1)

\* the identifiers of claim C1: username~jobName with a '~' in the job name
HasSeparatorInJobName(id) ==
  /\ includes(id, Tilde)
  /\ includes(JobNameOf(id), Tilde)

\* C1 (as stated): for every identifier username~jobName whose job-name part
\* contains '~', whatever the username, decodeName(encodeName(identifier)) is
\* the job name, everything after the first '~' of the identifier.
C1_RoundTripAnyUser ==
  (codec.decoded # NotYet /\ HasSeparatorInJobName(codec.name))
    => codec.decoded = JobNameOf(codec.name)

\* C1 (amended): the round trip holds for every such identifier whose
\* username does not start with 'unknown'; an identifier starting with
\* 'unknown' takes the lossy path and does not decode to its job name.
C1_RoundTrip ==
  (codec.decoded # NotYet /\ HasSeparatorInJobName(codec.name)
     /\ ~startsWith(codec.name, unknown))
    => codec.decoded = JobNameOf(codec.name)

\* witness of C1: a decoded identifier 'A1~...' whose job name holds a '~'
C1_Witness ==
  /\ codec.decoded # NotYet
  /\ HasSeparatorInJobName(codec.name)
  /\ ~startsWith(codec.name, unknown)
  /\ UserNameOf(codec.name) = <<65, 49>>
  /\ Len(JobNameOf(codec.name)) >= 2
  /\ codec.decoded = JobNameOf(codec.name)

(***************************************************************************)
(* State mapper.                                                           *)
(***************************************************************************)
convertStateFalsy(state, exitCode) ==
  CASE state \in {"AttemptCreationPending", "AttemptCreationRequested",
                  "AttemptPreparing"} -> "WAITING"
    [] state = "AttemptRunning" -> "RUNNING"
    [] state \in {"AttemptDeletionPending", "AttemptDeletionRequested",
                  "AttemptDeleting", "AttemptCompleted"} -> "WAITING"
    [] state = "Completed" ->
         IF exitCode = Num(0) \/ exitCode = Null THEN "SUCCEEDED" ELSE "FAILED"
    [] OTHER -> "UNKNOWN"

convertState(state, exitCode) ==
  CASE state \in {"AttemptCreationPending", "AttemptCreationRequested",
                  "AttemptPreparing"} -> "WAITING"
    [] state = "AttemptRunning" -> "RUNNING"
    [] state \in {"AttemptDeletionPending", "AttemptDeletionRequested",
                  "AttemptDeleting", "AttemptCompleted"} -> "WAITING"
    [] state = "Completed" ->
         IF exitCode = Num(0) THEN "SUCCEEDED" ELSE "FAILED"
    [] OTHER -> "UNKNOWN"

\* the state strings of the controller that the code names, and strings it
\* does not name (another letter case, a state of a later controller, '')
ControllerStates ==
  { "AttemptCreationPending", "AttemptCreationRequested", "AttemptPreparing",
    "AttemptRunning", "AttemptDeletionPending", "AttemptDeletionRequested",
    "AttemptDeleting", "AttemptCompleted", "Completed",
    "completed", "COMPLETED", "Succeeded", "attemptRunning",
    "AttemptStartRequested", "" }

\* completionStatus.code, or null while there is no completionStatus
ExitCodes == {Null, Num(0), Num(1), Num(-1), Num(137), Num(255)}

JobStates == {"WAITING", "RUNNING", "SUCCEEDED", "FAILED", "UNKNOWN"}

StateInit ==
  /\ \E s \in ControllerStates, e \in ExitCodes :
       mapper = [state |-> s, exitCode |-> e, result |-> "pending"]
  /\ codec = Idle
  /\ builder = Idle
  /\ frameworks = Idle
  /\ client = Idle
  /\ submitted = Idle
  /\ users = Idle
  /\ user = Idle
  /\ inflight = Idle

ConvertState ==
  /\ mapper.result = "pending"
  /\ mapper' = [mapper EXCEPT !.result = convertState(mapper.state, mapper.exitCode)]
  /\ UNCHANGED <<codec, builder, clientVars, userVars>>

StateNext == ConvertState

SpecState == StateInit /\ [][StateNext]_vars

\* the pre-running and transitional attempt states
WaitingStates ==
  { "AttemptCreationPending", "AttemptCreationRequested", "AttemptPreparing",
    "AttemptDeletionPending", "AttemptDeletionRequested", "AttemptDeleting",
    "AttemptCompleted" }

\* C2: convertState is total onto the five job states: SUCCEEDED exactly for
\* 'Completed' with exit code 0, FAILED for 'Completed' with any other exit
\* code or none, RUNNING for 'AttemptRunning' whatever the exit code, WAITING
\* for every pre-running or transitional attempt state, UNKNOWN for every
\* other string.
C2_StateTable ==
  mapper.result # "pending" =>
    /\ mapper.result \in JobStates
    /\ (mapper.result = "SUCCEEDED")
         <=> (mapper.state = "Completed" /\ mapper.exitCode = Num(0))
    /\ (mapper.state = "Completed" /\ mapper.exitCode # Num(0))
         => mapper.result = "FAILED"
    /\ mapper.state = "AttemptRunning" => mapper.result = "RUNNING"
    /\ mapper.state \in WaitingStates => mapper.result = "WAITING"
    /\ mapper.state \notin WaitingStates \cup {"AttemptRunning", "Completed"}
         => mapper.result = "UNKNOWN"

\* witness of C2: 'Completed' without an exit code has been mapped to FAILED
C2_Witness ==
  /\ mapper.state = "Completed"
  /\ mapper.exitCode = Null
  /\ mapper.result = "FAILED"

(***************************************************************************)
(* Workload spec builder.  An object is a function on the keys it has, so  *)
(* that "key in object" is membership in its DOMAIN; the task roles of a   *)
(* configuration are the sequence of its keys in insertion order, each     *)
(* with its value.  Of the pod template, which is the same for every       *)
(* input, the labels are kept.                                             *)
(***************************************************************************)
\* the execution type 'Start'
Start == <<83, 116, 97, 114, 116>>

\* the object without keys
Empty == [k \in {} |-> 0]

\* config.taskRoles[taskRole].instances || 1: 0 is falsy, as an absent key is
taskNumber(role) ==
  IF "instances" \in DOMAIN role /\ role.instances # 0 THEN role.instances ELSE 1

\* frameworkAttemptCompletionPolicy of a task role
completionPolicy(role) ==
  IF "completion" \in DOMAIN role
    THEN [ minFailedTaskCount |->
             IF "minFailedInstances" \in DOMAIN role.completion
               THEN role.completion.minFailedInstances ELSE 1,
           minSucceededTaskCount |->
             IF "minSucceededInstances" \in DOMAIN role.completion
               THEN role.completion.minSucceededInstances ELSE -1 ]
    ELSE [minFailedTaskCount |-> 1, minSucceededTaskCount |-> -1]

generateTaskRole(taskRole, labels, config) ==
  [ name |-> convertName(taskRole.name),
    taskNumber |-> taskNumber(taskRole.value),
    task |->
      [ retryPolicy |-> [fancyRetryPolicy |-> TRUE, maxRetryCount |-> 0],
        pod |-> [metadata |-> [labels |-> labels @@ [type |-> "kube-launcher-task"]]] ],
    frameworkAttemptCompletionPolicy |-> completionPolicy(taskRole.value) ]

\* spec.retryPolicy of the framework
retryPolicyClamped(config) ==
  [ fancyRetryPolicy |->
      ~("jobRetryCount" \in DOMAIN config /\ config.jobRetryCount < 0),
    maxRetryCount |->
      IF "jobRetryCount" \in DOMAIN config /\ config.jobRetryCount > 0
        THEN config.jobRetryCount ELSE 0 ]

retryPolicy(config) ==
  [ fancyRetryPolicy |->
      ~("jobRetryCount" \in DOMAIN config /\ config.jobRetryCount = -2),
    maxRetryCount |->
      IF "jobRetryCount" \in DOMAIN config /\ config.jobRetryCount # 0
        THEN config.jobRetryCount ELSE 0 ]

generateFrameworkDescription(frameworkName, virtualCluster, config, rawConfig) ==
  LET frameworkLabels ==
        [ jobName |-> splitTail(frameworkName),
          userName |-> splitHead(frameworkName),
          virtualCluster |-> virtualCluster ]
  IN  [ kind |-> "Framework",
        metadata |->
          [ name |-> encodeName(frameworkName),
            labels |-> frameworkLabels,
            annotations |-> [config |-> rawConfig] ],
        spec |->
          [ executionType |-> Start,
            retryPolicy |-> retryPolicy(config),
            taskRoles |->
              [ i \in 1..Len(config.taskRoles) |->
                  generateTaskRole(config.taskRoles[i], frameworkLabels, config) ] ] ]

(***************************************************************************)
(* Inputs of the builder.                                                  *)
(***************************************************************************)
\* instance counts a configuration gives to a task role
InstanceCounts == {0, 1, 3}

\* thresholds a completion policy gives
Thresholds == {-1, 2}

\* job-level retry counts a configuration gives
RetryCounts == {-2, -1, 0, 1, 3}

CompletionConfigs ==
  {f @@ g : f \in {Empty} \cup {[minFailedInstances |-> t] : t \in Thresholds},
            g \in {Empty} \cup {[minSucceededInstances |-> t] : t \in Thresholds}}

TaskRoleConfigs ==
  {i @@ c : i \in {Empty} \cup {[instances |-> n] : n \in InstanceCounts},
            c \in {Empty} \cup {[completion |-> p] : p \in CompletionConfigs}}

\* task role names 'worker' and 'PS-0'
worker == <<119, 111, 114, 107, 101, 114>>

ps0 == <<80, 83, 45, 48>>

\* configurations with one task role, and one with two
BuilderConfigs ==
  {r @@ [taskRoles |-> <<[name |-> worker, value |-> t]>>] :
     r \in {Empty} \cup {[jobRetryCount |-> n] : n \in RetryCounts},
     t \in TaskRoleConfigs}
  \cup
  { [ taskRoles |-> << [name |-> ps0, value |-> [instances |-> 3]],
                       [name |-> worker, value |-> [completion |-> Empty]] >> ] }

\* 'A1~a~B' and 'unknown~a'
BuilderNames ==
  { <<65, 49, Tilde, 97, Tilde, 66>>, unknown \o <<Tilde, 97>> }

BuildInit ==
  /\ \E n \in BuilderNames, c \in BuilderConfigs :
       builder = [ frameworkName |-> n, virtualCluster |-> "default", config |-> c,
                   rawConfig |-> "taskRoles: {}", built |-> FALSE,
                   description |-> Empty ]
  /\ codec = Idle
  /\ mapper = Idle
  /\ frameworks = Idle
  /\ client = Idle
  /\ submitted = Idle
  /\ users = Idle
  /\ user = Idle
  /\ inflight = Idle

Generate ==
  /\ ~builder.built
  /\ builder' =
       [ builder EXCEPT
           !.built = TRUE,
           !.description =
             generateFrameworkDescription(builder.frameworkName, builder.virtualCluster,
                                          builder.config, builder.rawConfig) ]
  /\ UNCHANGED <<codec, mapper, clientVars, userVars>>

BuildNext == Generate

SpecBuild == BuildInit /\ [][BuildNext]_vars

\* C6: the smart-retry flag of the job-level retry policy is false exactly
\* when jobRetryCount is the sentinel -2 (true for every other integer and
\* when it is absent), and maxRetryCount is jobRetryCount when it is given,
\* -2 included, and 0 when it is absent.
C6_RetryPolicy ==
  builder.built =>
    LET given == "jobRetryCount" \in DOMAIN builder.config
        policy == builder.description.spec.retryPolicy
    IN  /\ policy.fancyRetryPolicy = FALSE <=> (given /\ builder.config.jobRetryCount = -2)
        /\ given => policy.maxRetryCount = builder.config.jobRetryCount
        /\ ~given => policy.maxRetryCount = 0

\* witness of C6: a description built from jobRetryCount -2
C6_Witness ==
  /\ builder.built
  /\ "jobRetryCount" \in DOMAIN builder.config
  /\ builder.config.jobRetryCount = -2
  /\ builder.description.spec.retryPolicy
       = [fancyRetryPolicy |-> FALSE, maxRetryCount |-> -2]

\* C7 (as stated; the code breaks it for instances: 0): every emitted task
\* role has the configured instance count as its
\* task count, 1 when none is configured, and the completion policy
\* {minFailedTaskCount: 1, minSucceededTaskCount: -1} when the role has no
\* 'completion' key; with 'completion', each threshold given is used and
\* each missing one takes that default.
C7_TaskRole ==
  builder.built =>
    \A i \in 1..Len(builder.config.taskRoles) :
      LET role == builder.config.taskRoles[i].value
          out == builder.description.spec.taskRoles[i]
          policy == out.frameworkAttemptCompletionPolicy
      IN  /\ Len(builder.description.spec.taskRoles) = Len(builder.config.taskRoles)
          /\ "instances" \in DOMAIN role => out.taskNumber = role.instances
          /\ "instances" \notin DOMAIN role => out.taskNumber = 1
          /\ "completion" \notin DOMAIN role
               => policy = [minFailedTaskCount |-> 1, minSucceededTaskCount |-> -1]
          /\ "completion" \in DOMAIN role =>
               /\ policy.minFailedTaskCount =
                    IF "minFailedInstances" \in DOMAIN role.completion
                      THEN role.completion.minFailedInstances ELSE 1
               /\ policy.minSucceededTaskCount =
                    IF "minSucceededInstances" \in DOMAIN role.completion
                      THEN role.completion.minSucceededInstances ELSE -1

(***************************************************************************)
(* Status projector.  A time string of the controller is <<seconds>>.      *)
(***************************************************************************)
\* String.prototype.toUpperCase on ASCII
toUpperCase(s) == [i \in 1..Len(s) |-> IF s[i] \in 97..122 THEN s[i] - 32 ELSE s[i]]

\* new Date(t).getTime(): milliseconds since the epoch, 0 for null
getTime(t) == IF t = Null THEN 0 ELSE 1000 * t[1]

\* completionStatus ? completionStatus.code : null
codeOf(attemptStatus) ==
  IF "completionStatus" \in DOMAIN attemptStatus
    THEN Num(attemptStatus.completionStatus.code) ELSE Null

\* taskRoleStatuses.reduce((num, statuses) => num + statuses.taskStatuses.length, 0)
RECURSIVE countTasks(_)
countTasks(taskRoleStatuses) ==
  IF taskRoleStatuses = <<>> THEN 0
  ELSE countTasks(SubSeq(taskRoleStatuses, 1, Len(taskRoleStatuses) - 1))
         + Len(taskRoleStatuses[Len(taskRoleStatuses)].taskStatuses)

convertFrameworkSummary(framework) ==
  [ name |-> decodeName(framework.metadata.name),
    username |-> IF "labels" \in DOMAIN framework.metadata
                   THEN framework.metadata.labels.userName ELSE unknown,
    state |-> convertState(framework.status.state, codeOf(framework.status.attemptStatus)),
    subState |-> framework.status.state,
    executionType |-> toUpperCase(framework.spec.executionType),
    retries |-> framework.status.retryPolicyStatus.totalRetriedCount,
    retryDetails |->
      [ user |-> framework.status.retryPolicyStatus.accountableRetriedCount,
        platform |-> framework.status.retryPolicyStatus.totalRetriedCount
                       - framework.status.retryPolicyStatus.accountableRetriedCount,
        resource |-> 0 ],
    createdTime |-> getTime(framework.status.startTime),
    completedTime |-> getTime(framework.status.completionTime),
    appExitCode |-> codeOf(framework.status.attemptStatus),
    virtualCluster |-> IF "labels" \in DOMAIN framework.metadata
                         THEN framework.metadata.labels.virtualCluster ELSE "unknown",
    totalGpuNumber |-> 0,
    totalTaskNumber |-> countTasks(framework.status.attemptStatus.taskRoleStatuses),
    totalTaskRoleNumber |-> Len(framework.status.attemptStatus.taskRoleStatuses) ]

convertTaskDetail(taskStatus) ==
  [ taskIndex |-> taskStatus.index,
    taskState |-> convertState(taskStatus.state, codeOf(taskStatus.attemptStatus)),
    containerId |-> taskStatus.attemptStatus.podName,
    containerIp |-> taskStatus.attemptStatus.podHostIP,
    containerGpus |-> 0,
    containerLog |-> "",
    containerExitCode |-> codeOf(taskStatus.attemptStatus) ]

convertFrameworkDetail(framework) ==
  LET attempt == framework.status.attemptStatus IN
  [ name |-> decodeName(framework.metadata.name),
    jobStatus |->
      [ username |-> IF "labels" \in DOMAIN framework.metadata
                       THEN framework.metadata.labels.userName ELSE unknown,
        state |-> convertState(framework.status.state, codeOf(attempt)),
        subState |-> framework.status.state,
        executionType |-> toUpperCase(framework.spec.executionType),
        retries |-> framework.status.retryPolicyStatus.totalRetriedCount,
        retryDetails |->
          [ user |-> framework.status.retryPolicyStatus.accountableRetriedCount,
            platform |-> framework.status.retryPolicyStatus.totalRetriedCount
                           - framework.status.retryPolicyStatus.accountableRetriedCount,
            resource |-> 0 ],
        createdTime |-> getTime(framework.status.startTime),
        completedTime |-> getTime(framework.status.completionTime),
        appProgress |-> IF "completionStatus" \in DOMAIN attempt THEN 1 ELSE 0,
        appLaunchedTime |-> getTime(framework.status.startTime),
        appCompletedTime |-> getTime(framework.status.completionTime),
        appExitCode |-> codeOf(attempt),
        virtualCluster |-> IF "labels" \in DOMAIN framework.metadata
                             THEN framework.metadata.labels.virtualCluster ELSE "unknown" ],
    taskRoles |->
      [ i \in 1..Len(attempt.taskRoleStatuses) |->
          [ taskRoleStatus |-> [name |-> attempt.taskRoleStatuses[i].name],
            taskStatuses |->
              [ k \in 1..Len(attempt.taskRoleStatuses[i].taskStatuses) |->
                  convertTaskDetail(attempt.taskRoleStatuses[i].taskStatuses[k]) ] ] ] ]

\* where Array.prototype.sort puts x among the entries sorted so far: behind
\* every entry the comparator does not order after it (the sort is stable)
insertDescending(sorted, x) ==
  LET k == Cardinality({i \in 1..Len(sorted) : sorted[i].createdTime >= x.createdTime})
  IN  SubSeq(sorted, 1, k) \o <<x>> \o SubSeq(sorted, k + 1, Len(sorted))

\* frameworkList.sort((a, b) => a.createdTime - b.createdTime)
RECURSIVE sortAscending(_)
sortAscending(list) ==
  IF list = <<>> THEN <<>>
  ELSE LET sorted == sortAscending(SubSeq(list, 1, Len(list) - 1))
           x == list[Len(list)]
           k == Cardinality({i \in 1..Len(sorted) : sorted[i].createdTime <= x.createdTime})
       IN  SubSeq(sorted, 1, k) \o <<x>> \o SubSeq(sorted, k + 1, Len(sorted))

\* frameworkList.sort((a, b) => b.createdTime - a.createdTime)
RECURSIVE sortByCreatedTime(_)
sortByCreatedTime(list) ==
  IF list = <<>> THEN <<>>
  ELSE insertDescending(sortByCreatedTime(SubSeq(list, 1, Len(list) - 1)), list[Len(list)])

(***************************************************************************)
(* Errors and outcomes of an operation.                                    *)
(***************************************************************************)
createError(status, code, message) ==
  [status |-> status, code |-> code, message |-> message]

\* `Job ${frameworkName} is not found.` and its like
Message(text, frameworkName) == [text |-> text, job |-> frameworkName]

Return(value) == [kind |-> "return", value |-> value]

Throw(error) == [kind |-> "throw", error |-> error]

(***************************************************************************)
(* The controller, as the client sees it.  A reply is a response with a    *)
(* status and a body, or a failure of the transport without a response.    *)
(***************************************************************************)
\* latest start time (seconds) the controller gives a framework
MaxTime == 2

\* statuses of the controller's failures
ErrorStatuses == {500}

Answer(status, data) == [answered |-> TRUE, response |-> [status |-> status, data |-> data]]

NoAnswer == [answered |-> FALSE, error |-> [transport |-> "ECONNREFUSED"]]

Failures ==
  {NoAnswer} \cup {Answer(st, [message |-> "upstream failure"]) : st \in ErrorStatuses}

\* the orders in which the controller may list the frameworks S
Orders(S) ==
  {f \in [1..Cardinality(S) -> S] : \A i, j \in 1..Cardinality(S) : f[i] = f[j] => i = j}

\* status of a framework the controller has just created at time t
NewStatus(description, t) ==
  [ state |-> "AttemptCreationPending",
    startTime |-> Num(t),
    completionTime |-> Null,
    retryPolicyStatus |-> [totalRetriedCount |-> 0, accountableRetriedCount |-> 0],
    attemptStatus |->
      [ taskRoleStatuses |->
          [ i \in 1..Len(description.spec.taskRoles) |->
              [ name |-> description.spec.taskRoles[i].name,
                taskStatuses |->
                  [ k \in 1..description.spec.taskRoles[i].taskNumber |->
                      [ index |-> k - 1, state |-> "AttemptCreationPending",
                        attemptStatus |-> [podName |-> Null, podHostIP |-> Null] ] ] ] ] ] ]

\* the replies the controller may give to a request, each with the store
\* it leaves behind
Controller(request) ==
  LET name == request.name
      here == name \in DOMAIN frameworks
  IN  {<<f, frameworks>> : f \in Failures} \cup
      CASE request.method = "get" /\ request.path = "frameworks" ->
             { <<Answer(200, [items |-> [i \in DOMAIN o |-> frameworks[o[i]]]]), frameworks>> :
                 o \in Orders(DOMAIN frameworks) }
        [] request.method = "get" /\ request.path = "framework" ->
             IF here THEN {<<Answer(200, frameworks[name]), frameworks>>}
             ELSE {<<Answer(404, [message |-> "not found"]), frameworks>>}
        [] request.method = "post" ->
             IF request.data.metadata.name \in DOMAIN frameworks
               THEN {<<Answer(409, [message |-> "already exists"]), frameworks>>}
               ELSE { <<Answer(201, request.data @@ [status |-> NewStatus(request.data, t)]),
                        (request.data.metadata.name :>
                           (request.data @@ [status |-> NewStatus(request.data, t)]))
                          @@ frameworks>> : t \in 1..MaxTime }
        [] request.method = "patch" ->
             IF here
               THEN LET merged == [frameworks[name] EXCEPT
                                     !.spec = request.data.spec @@ frameworks[name].spec]
                    IN  {<<Answer(200, merged), [frameworks EXCEPT ![name] = merged]>>}
               ELSE {<<Answer(404, [message |-> "not found"]), frameworks>>}

(***************************************************************************)
(* Controller client.  Each operation builds one request, awaits the       *)
(* controller's reply and classifies it.                                   *)
(***************************************************************************)
\* yaml.safeLoad of the configuration texts the model submits
ConfigTextA == "jobRetryCount: 1, defaults: {virtualCluster: vc1}, taskRoles: {worker: {instances: 2}}"

ConfigTextB == "taskRoles: {worker: {}}"

RawConfigs == {ConfigTextA, ConfigTextB}

safeLoad(text) ==
  CASE text = ConfigTextA ->
         [ jobRetryCount |-> 1,
           defaults |-> [virtualCluster |-> "vc1"],
           taskRoles |-> <<[name |-> worker, value |-> [instances |-> 2]]>> ]
    [] text = ConfigTextB ->
         [taskRoles |-> <<[name |-> worker, value |-> Empty]>>]

\* a value is truthy: here, a text that is not ''
Truthy(text) == text # ""

listRequest ==
  [method |-> "get", path |-> "frameworks", name |-> <<>>, headers |-> "requestHeaders"]

getRequest(frameworkName) ==
  [ method |-> "get", path |-> "framework", name |-> encodeName(frameworkName),
    headers |-> "requestHeaders" ]

putRequest(frameworkName, config, rawConfig) ==
  LET virtualCluster ==
        IF "defaults" \in DOMAIN config /\ "virtualCluster" \in DOMAIN config.defaults
          THEN config.defaults.virtualCluster ELSE "default"
  IN  [ method |-> "post", path |-> "frameworks", name |-> <<>>,
        headers |-> "requestHeaders",
        data |-> generateFrameworkDescription(frameworkName, virtualCluster, config, rawConfig) ]

\* `${executionType.charAt(0)}${executionType.slice(1).toLowerCase()}`
patchedExecutionType(executionType) ==
  SubSeq(executionType, 1, 1) \o toLowerCase(SubSeq(executionType, 2, Len(executionType)))

executeRequest(frameworkName, executionType) ==
  [ method |-> "patch", path |-> "framework", name |-> encodeName(frameworkName),
    headers |-> [ContentType |-> "application/merge-patch+json"],
    data |-> [spec |-> [executionType |-> patchedExecutionType(executionType)]] ]

listResult(reply) ==
  IF ~reply.answered THEN Throw(reply.error)
  ELSE IF reply.response.status = 200
    THEN Return(sortByCreatedTime(
           [ i \in DOMAIN reply.response.data.items |->
               convertFrameworkSummary(reply.response.data.items[i]) ]))
    ELSE Throw(createError(reply.response.status, "UnknownError",
                           reply.response.data.message))

getResultEncodedName(frameworkName, reply) ==
  IF ~reply.answered THEN Throw(reply.error)
  ELSE IF reply.response.status = 200
    THEN Return(convertFrameworkDetail(reply.response.data))
  ELSE IF reply.response.status = 404
    THEN Throw(createError("Not Found", "NoJobError",
                           Message("Job is not found.", encodeName(frameworkName))))
    ELSE Throw(createError(reply.response.status, "UnknownError",
                           reply.response.data.message))

getResult(frameworkName, reply) ==
  IF ~reply.answered THEN Throw(reply.error)
  ELSE IF reply.response.status = 200
    THEN Return(convertFrameworkDetail(reply.response.data))
  ELSE IF reply.response.status = 404
    THEN Throw(createError("Not Found", "NoJobError",
                           Message("Job is not found.", frameworkName)))
    ELSE Throw(createError(reply.response.status, "UnknownError",
                           reply.response.data.message))

putResult(reply) ==
  IF ~reply.answered THEN Throw(reply.error)
  ELSE IF reply.response.status # 201
    THEN Throw(createError(reply.response.status, "UnknownError",
                           reply.response.data.message))
    ELSE Return(Undefined)

executeResult(reply) ==
  IF ~reply.answered THEN Throw(reply.error)
  ELSE IF reply.response.status # 200
    THEN Throw(createError(reply.response.status, "UnknownError",
                           reply.response.data.message))
    ELSE Return(Undefined)

getConfigResultNoJob(frameworkName, reply) ==
  IF ~reply.answered THEN Throw(reply.error)
  ELSE IF reply.response.status = 200
    THEN IF /\ "annotations" \in DOMAIN reply.response.data.metadata
            /\ "config" \in DOMAIN reply.response.data.metadata.annotations
            /\ Truthy(reply.response.data.metadata.annotations.config)
           THEN Return(safeLoad(reply.response.data.metadata.annotations.config))
           ELSE Throw(createError("Not Found", "NoJobError",
                                  Message("Job is not found.", frameworkName)))
  ELSE IF reply.response.status = 404
    THEN Throw(createError("Not Found", "NoJobError",
                           Message("Job is not found.", frameworkName)))
    ELSE Throw(createError(reply.response.status, "UnknownError",
                           reply.response.data.message))

getConfigResult(frameworkName, reply) ==
  IF ~reply.answered THEN Throw(reply.error)
  ELSE IF reply.response.status = 200
    THEN IF /\ "annotations" \in DOMAIN reply.response.data.metadata
            /\ "config" \in DOMAIN reply.response.data.metadata.annotations
            /\ Truthy(reply.response.data.metadata.annotations.config)
           THEN Return(safeLoad(reply.response.data.metadata.annotations.config))
           ELSE Throw(createError("Not Found", "NoJobConfigError",
                                  Message("Config of job is not found.", frameworkName)))
  ELSE IF reply.response.status = 404
    THEN Throw(createError("Not Found", "NoJobError",
                           Message("Job is not found.", frameworkName)))
    ELSE Throw(createError(reply.response.status, "UnknownError",
                           reply.response.data.message))

(***************************************************************************)
(* Inputs of the client and the frameworks the controller starts with.     *)
(***************************************************************************)
\* 'A1~a~B' and 'a~b': the identifiers jobs are submitted under
PutNames == { <<65, 49, Tilde, 97, Tilde, 66>>, <<97, Tilde, 98>> }

\* 'ab': a framework that was not submitted through this client
ab == <<97, 98>>

\* the identifiers looked up: the submitted ones and 'ab'
ClientNames == PutNames \cup {ab}

\* the identifier whose execution type is patched: 'A1~a~B'
ExecuteNames == { <<65, 49, Tilde, 97, Tilde, 66>> }

\* 'STOP', 'sToP'
ExecutionTypes == { <<83, 84, 79, 80>>, <<115, 84, 111, 80>> }

\* a completed framework without labels and without annotations
ForeignCompleted ==
  [ kind |-> "Framework",
    metadata |-> [name |-> ab],
    spec |-> [executionType |-> Start],
    status |->
      [ state |-> "Completed", startTime |-> Num(0), completionTime |-> Num(1),
        retryPolicyStatus |-> [totalRetriedCount |-> 2, accountableRetriedCount |-> 1],
        attemptStatus |->
          [ completionStatus |-> [code |-> 0],
            taskRoleStatuses |->
              << [ name |-> worker,
                   taskStatuses |->
                     << [ index |-> 0, state |-> "Completed",
                          attemptStatus |->
                            [ podName |-> Null, podHostIP |-> Null,
                              completionStatus |-> [code |-> 0] ] ] >> ] >> ] ] ]

\* a running framework with labels, and annotations that hold no config
ForeignRunning ==
  [ kind |-> "Framework",
    metadata |->
      [ name |-> ab,
        labels |-> [userName |-> <<97>>, jobName |-> ab, virtualCluster |-> "vc1"],
        annotations |-> [owner |-> "a"] ],
    spec |-> [executionType |-> Start],
    status |->
      [ state |-> "AttemptRunning", startTime |-> Num(0), completionTime |-> Null,
        retryPolicyStatus |-> [totalRetriedCount |-> 0, accountableRetriedCount |-> 0],
        attemptStatus |-> [taskRoleStatuses |-> <<>>] ] ]

\* the controller starts empty, or with one of the two under the name 'ab'
InitialFrameworks == {Empty, (ab :> ForeignCompleted), (ab :> ForeignRunning)}

NoInvocation ==
  [op |-> "none", args |-> Empty, requests |-> <<>>, reply |-> Empty, outcome |-> Empty]

ClientInit ==
  /\ frameworks \in InitialFrameworks
  /\ client = NoInvocation
  /\ submitted = Empty
  /\ users = Idle
  /\ user = Idle
  /\ inflight = Idle
  /\ codec = Idle
  /\ mapper = Idle
  /\ builder = Idle

\* one await of axios: the request went out and the controller replied
Invoke(op, args, request, reply, outcome, store) ==
  /\ client' = [ op |-> op, args |-> args, requests |-> <<request>>,
                 reply |-> reply, outcome |-> outcome ]
  /\ frameworks' = store

list ==
  /\ \E c \in Controller(listRequest) :
       Invoke("list", Empty, listRequest, c[1], listResult(c[1]), c[2])
  /\ UNCHANGED <<codec, mapper, builder, submitted, userVars>>

get ==
  /\ \E frameworkName \in ClientNames :
       \E c \in Controller(getRequest(frameworkName)) :
         Invoke("get", [frameworkName |-> frameworkName], getRequest(frameworkName),
                c[1], getResult(frameworkName, c[1]), c[2])
  /\ UNCHANGED <<codec, mapper, builder, submitted, userVars>>

\* the caller hands put() a configuration text and the parse of that text
put ==
  /\ \E frameworkName \in PutNames, rawConfig \in RawConfigs :
       /\ \E c \in Controller(putRequest(frameworkName, safeLoad(rawConfig), rawConfig)) :
            Invoke("put",
                   [ frameworkName |-> frameworkName, config |-> safeLoad(rawConfig),
                     rawConfig |-> rawConfig ],
                   putRequest(frameworkName, safeLoad(rawConfig), rawConfig),
                   c[1], putResult(c[1]), c[2])
       /\ submitted' =
            IF client'.outcome.kind = "return"
              THEN (encodeName(frameworkName) :> rawConfig) @@ submitted
              ELSE submitted
  /\ UNCHANGED <<codec, mapper, builder, userVars>>

execute ==
  /\ \E frameworkName \in ExecuteNames, executionType \in ExecutionTypes :
       \E c \in Controller(executeRequest(frameworkName, executionType)) :
         Invoke("execute",
                [frameworkName |-> frameworkName, executionType |-> executionType],
                executeRequest(frameworkName, executionType), c[1], executeResult(c[1]), c[2])
  /\ UNCHANGED <<codec, mapper, builder, submitted, userVars>>

getConfig ==
  /\ \E frameworkName \in ClientNames :
       \E c \in Controller(getRequest(frameworkName)) :
         Invoke("getConfig", [frameworkName |-> frameworkName], getRequest(frameworkName),
                c[1], getConfigResult(frameworkName, c[1]), c[2])
  /\ UNCHANGED <<codec, mapper, builder, submitted, userVars>>

ClientNext == list \/ get \/ put \/ execute \/ getConfig

SpecClient == ClientInit /\ [][ClientNext]_vars

(***************************************************************************)
(* User model.  The store answers a call with a value, or raises an error: *)
(* with status 404 for a user it does not hold, 409 for a create of one it *)
(* holds, or a failure of its own with or without a status.                *)
(***************************************************************************)
\* callers that may be inside createUserIfNonExistent at the same time
Procs == {1, 2}

Usernames == {"alice", "bob"}

\* authConfig.groupConfig.adminGroup.groupname
adminGroup == "admingroup"

\* a member of group g1 and of virtual cluster vc1, and an administrator
UserValues ==
  { [grouplist |-> <<"g1">>, extension |-> [virtualCluster |-> <<"vc1">>]],
    [grouplist |-> <<"users", adminGroup>>, extension |-> [virtualCluster |-> <<>>]] }

Groupnames == {"g1", "g2"}

VCNames == {"vc1", "vc2"}

\* errors the store raises on its own account
StoreFailures == {[status |-> 500], [message |-> "socket hang up"]}

Ok(value, store) == [ok |-> TRUE, value |-> value, store |-> store]

Raise(error) == [ok |-> FALSE, error |-> error, store |-> users]

\* the answers the store may give to a call, each with the store it leaves
Store(call) ==
  LET here == call.kind # "readAll" /\ call.username \in DOMAIN users
  IN  {Raise(e) : e \in StoreFailures} \cup
      CASE call.kind = "read" ->
             IF here THEN {Ok(users[call.username], users)} ELSE {Raise([status |-> 404])}
        [] call.kind = "readAll" -> {Ok(users, users)}
        [] call.kind = "create" ->
             IF here THEN {Raise([status |-> 409])}
             ELSE {Ok(call.value, (call.username :> call.value) @@ users)}
        [] call.kind = "update" ->
             IF here THEN {Ok(call.value, [users EXCEPT ![call.username] = call.value])}
             ELSE {Raise([status |-> 404])}
        [] call.kind = "remove" ->
             IF here
               THEN {Ok(Empty, [n \in DOMAIN users \ {call.username} |-> users[n]])}
               ELSE {Raise([status |-> 404])}

\* what the caller sees of an answer
Seen(reply) ==
  IF reply.ok THEN [ok |-> TRUE, value |-> reply.value]
  ELSE [ok |-> FALSE, error |-> reply.error]

\* Array.prototype.includes
arrayIncludes(array, x) == \E i \in 1..Len(array) : array[i] = x

\* return await call, inside a try whose catch throws the error on
settle(reply) ==
  IF reply.ok THEN Return(reply.value) ELSE Throw(reply.error)

\* an invocation made of a single call: it completes with the call
Complete(op, args, call, reply, outcome) ==
  /\ user' = [ op |-> op, args |-> args, calls |-> <<call>>, replies |-> <<Seen(reply)>>,
               changed |-> reply.store # users, outcome |-> outcome ]
  /\ users' = reply.store
  /\ UNCHANGED inflight

getUser ==
  /\ \E username \in Usernames :
       \E reply \in Store([kind |-> "read", username |-> username]) :
         Complete("getUser", [username |-> username],
                  [kind |-> "read", username |-> username], reply, settle(reply))
  /\ UNCHANGED <<codec, mapper, builder, clientVars>>

getAllUser ==
  /\ \E reply \in Store([kind |-> "readAll"]) :
       Complete("getAllUser", Empty, [kind |-> "readAll"], reply, settle(reply))
  /\ UNCHANGED <<codec, mapper, builder, clientVars>>

createUser ==
  /\ \E username \in Usernames, value \in UserValues :
       \E reply \in Store([kind |-> "create", username |-> username, value |-> value]) :
         Complete("createUser", [username |-> username, value |-> value],
                  [kind |-> "create", username |-> username, value |-> value],
                  reply, settle(reply))
  /\ UNCHANGED <<codec, mapper, builder, clientVars>>

updateUser ==
  /\ \E username \in Usernames, value \in UserValues :
       LET call == [ kind |-> "update", username |-> username, value |-> value,
                     updatePassword |-> FALSE ]
       IN  \E reply \in Store(call) :
             Complete("updateUser", [username |-> username, value |-> value],
                      call, reply, settle(reply))
  /\ UNCHANGED <<codec, mapper, builder, clientVars>>

deleteUser ==
  /\ \E username \in Usernames :
       \E reply \in Store([kind |-> "remove", username |-> username]) :
         Complete("deleteUser", [username |-> username],
                  [kind |-> "remove", username |-> username], reply, settle(reply))
  /\ UNCHANGED <<codec, mapper, builder, clientVars>>

\* what createUserIfNonExistent does with the error of its read
onReadErrorInverted(error) ==
  IF "status" \in DOMAIN error /\ error.status # 404 THEN "create" ELSE "throw"

onReadErrorAnyStatus(error) ==
  IF "status" \in DOMAIN error THEN "create" ELSE "throw"

onReadError(error) ==
  IF "status" \in DOMAIN error /\ error.status = 404 THEN "create" ELSE "throw"

NotInside == [pc |-> "idle"]

\* createUserIfNonExistent up to the end of its first await: the read
createUserIfNonExistentRead(p) ==
  /\ inflight[p] = NotInside
  /\ \E username \in Usernames, userValue \in UserValues :
       LET call == [kind |-> "read", username |-> username]
           args == [username |-> username, userValue |-> userValue]
       IN  \E reply \in Store(call) :
             /\ users' = reply.store
             /\ IF ~reply.ok /\ onReadError(reply.error) = "create"
                  THEN /\ inflight' =
                            [ inflight EXCEPT ![p] =
                                [ pc |-> "creating", args |-> args, calls |-> <<call>>,
                                  replies |-> <<Seen(reply)>> ] ]
                       /\ UNCHANGED user
                  ELSE /\ user' =
                            [ op |-> "createUserIfNonExistent", args |-> args,
                              calls |-> <<call>>, replies |-> <<Seen(reply)>>,
                              changed |-> reply.store # users,
                              outcome |-> IF reply.ok THEN Return(Undefined)
                                          ELSE Throw(reply.error) ]
                       /\ UNCHANGED inflight
  /\ UNCHANGED <<codec, mapper, builder, clientVars>>

\* createUserIfNonExistent from the catch block on: the create
createUserIfNonExistentCreate(p) ==
  /\ inflight[p].pc = "creating"
  /\ LET args == inflight[p].args
         call == [kind |-> "create", username |-> args.username, value |-> args.userValue]
     IN  \E reply \in Store(call) :
           /\ users' = reply.store
           /\ user' =
                [ op |-> "createUserIfNonExistent", args |-> args,
                  calls |-> Append(inflight[p].calls, call),
                  replies |-> Append(inflight[p].replies, Seen(reply)),
                  changed |-> reply.store # users,
                  outcome |-> IF reply.ok THEN Return(Undefined) ELSE Throw(reply.error) ]
           /\ inflight' = [inflight EXCEPT ![p] = NotInside]
  /\ UNCHANGED <<codec, mapper, builder, clientVars>>

\* ret of checkUserGroup
inGroup(userInfo, groupname) ==
  IF arrayIncludes(userInfo.grouplist, groupname) THEN TRUE
  ELSE IF arrayIncludes(userInfo.grouplist, adminGroup) THEN TRUE
  ELSE FALSE

\* ret of checkUserVC
inVCNoAdmin(userInfo, vcName) ==
  IF arrayIncludes(userInfo.extension.virtualCluster, vcName) THEN TRUE ELSE FALSE

inVC(userInfo, vcName) ==
  IF arrayIncludes(userInfo.extension.virtualCluster, vcName) THEN TRUE
  ELSE IF arrayIncludes(userInfo.grouplist, adminGroup) THEN TRUE
  ELSE FALSE

checkUserGroup ==
  /\ \E username \in Usernames, groupname \in Groupnames :
       \E reply \in Store([kind |-> "read", username |-> username]) :
         Complete("checkUserGroup", [username |-> username, groupname |-> groupname],
                  [kind |-> "read", username |-> username], reply,
                  IF reply.ok THEN Return(inGroup(reply.value, groupname))
                  ELSE Throw(reply.error))
  /\ UNCHANGED <<codec, mapper, builder, clientVars>>

checkUserVC ==
  /\ \E username \in Usernames, vcName \in VCNames :
       \E reply \in Store([kind |-> "read", username |-> username]) :
         Complete("checkUserVC", [username |-> username, vcName |-> vcName],
                  [kind |-> "read", username |-> username], reply,
                  IF reply.ok THEN Return(inVC(reply.value, vcName))
                  ELSE Throw(reply.error))
  /\ UNCHANGED <<codec, mapper, builder, clientVars>>

\* the stores the user model may find when it starts
InitialUsers ==
  {Empty} \cup {(n :> v) : n \in Usernames, v \in UserValues}

UserInit ==
  /\ users \in InitialUsers
  /\ user = [ op |-> "none", args |-> Empty, calls |-> <<>>, replies |-> <<>>,
              changed |-> FALSE, outcome |-> Empty ]
  /\ inflight = [p \in Procs |-> NotInside]
  /\ codec = Idle
  /\ mapper = Idle
  /\ builder = Idle
  /\ frameworks = Idle
  /\ client = Idle
  /\ submitted = Idle

UserNext ==
  \/ getUser
  \/ getAllUser
  \/ createUser
  \/ updateUser
  \/ deleteUser
  \/ \E p \in Procs : createUserIfNonExistentRead(p)
  \/ \E p \in Procs : createUserIfNonExistentCreate(p)
  \/ checkUserGroup
  \/ checkUserVC

SpecUser == UserInit /\ [][UserNext]_vars

(***************************************************************************)
(* Both modules.  They share no state, so a behaviour of the program is an *)
(* interleaving of a behaviour of each and a property of one module's      *)
(* variables holds of the program when it holds of that module; a          *)
(* behaviour of Spec runs one of the two.                                  *)
(***************************************************************************)
Init == ClientInit \/ UserInit

Next ==
  \/ client # Idle /\ ClientNext
  \/ user # Idle /\ UserNext

Spec == Init /\ [][Next]_vars

\* the reply of the last invocation carries a response with this status
Answered(status) == client.reply.answered /\ client.reply.response.status = status

\* C3: when the controller answers get(id), status 200 yields the job
\* detail, status 404 raises NoJobError carrying the name the caller passed
\* and not the encoded controller name, and every other status raises
\* UnknownError carrying the upstream status and message; exactly one of the
\* three happens.
C3_GetOutcome ==
  (client.op = "get" /\ client.reply.answered) =>
    LET response == client.reply.response
        out == client.outcome
        detail == /\ out.kind = "return"
                  /\ out.value.name = decodeName(response.data.metadata.name)
        noJob == /\ out.kind = "throw"
                 /\ out.error.code = "NoJobError"
                 /\ out.error.message.job = client.args.frameworkName
                 /\ (encodeName(client.args.frameworkName) # client.args.frameworkName
                       => out.error.message.job # client.requests[1].name)
        upstream == /\ out.kind = "throw"
                    /\ out.error.code = "UnknownError"
                    /\ out.error.status = response.status
                    /\ out.error.message = response.data.message
    IN  /\ response.status = 200 => detail
        /\ response.status = 404 => noJob
        /\ response.status \notin {200, 404} => upstream
        /\ (out.kind = "return") <=> (response.status = 200)
        /\ (out.kind = "throw" /\ out.error.code = "NoJobError") <=> (response.status = 404)
        /\ (out.kind = "throw" /\ out.error.code = "UnknownError")
             <=> (response.status \notin {200, 404})

\* witness of C3: get('A1~a~B') was answered 404 and raised NoJobError
C3_Witness ==
  /\ client.op = "get"
  /\ Answered(404)
  /\ client.args.frameworkName = <<65, 49, Tilde, 97, Tilde, 66>>
  /\ client.outcome.kind = "throw"
  /\ client.outcome.error.code = "NoJobError"

\* the workload carries a stored 'config' annotation
HasConfig(data) ==
  /\ "annotations" \in DOMAIN data.metadata
  /\ "config" \in DOMAIN data.metadata.annotations

\* C4: getConfig(id) raises NoJobConfigError for a 200 response whose
\* workload has no annotations or no config annotation, NoJobError for a 404
\* response, and for a 200 response with a config annotation returns the
\* parse of exactly the text put() embedded for that job.
C4_GetConfig ==
  (client.op = "getConfig" /\ client.reply.answered) =>
    LET response == client.reply.response
        out == client.outcome
        name == encodeName(client.args.frameworkName)
    IN  /\ (response.status = 200 /\ ~HasConfig(response.data))
             => (out.kind = "throw" /\ out.error.code = "NoJobConfigError")
        /\ response.status = 404
             => (out.kind = "throw" /\ out.error.code = "NoJobError")
        /\ (response.status = 200 /\ HasConfig(response.data))
             => /\ out.kind = "return"
                /\ name \in DOMAIN submitted
                /\ out.value = safeLoad(submitted[name])

\* witness of C4: getConfig found annotations without a config on 'ab'
C4_Witness ==
  /\ client.op = "getConfig"
  /\ Answered(200)
  /\ "annotations" \in DOMAIN client.reply.response.data.metadata
  /\ ~HasConfig(client.reply.response.data)
  /\ client.outcome.kind = "throw"
  /\ client.outcome.error.code = "NoJobConfigError"

\* C5: list() answered with status 200 returns one summary per workload,
\* ordered by creation time descending: each entry's createdTime is at least
\* that of the entry after it.
C5_ListOrder ==
  (client.op = "list" /\ Answered(200)) =>
    LET items == client.reply.response.data.items
        out == client.outcome
    IN  /\ out.kind = "return"
        /\ Len(out.value) = Len(items)
        /\ \E p \in Orders(DOMAIN items) :
             \A i \in DOMAIN items : out.value[i] = convertFrameworkSummary(items[p[i]])
        /\ \A i \in 1..(Len(out.value) - 1) :
             out.value[i].createdTime >= out.value[i + 1].createdTime

\* witness of C5: three workloads created at three different times, listed
\* by the controller in another order than the one returned
C5_Witness ==
  /\ client.op = "list"
  /\ Answered(200)
  /\ Len(client.reply.response.data.items) = 3
  /\ client.outcome.kind = "return"
  /\ client.outcome.value[1].createdTime > client.outcome.value[2].createdTime
  /\ client.outcome.value[2].createdTime > client.outcome.value[3].createdTime
  /\ client.outcome.value[1] # convertFrameworkSummary(client.reply.response.data.items[1])

\* C8 (as stated; the code breaks it for 'sToP'): execute() sends a
\* merge-patch body naming only spec.executionType, whose value is the
\* executionType given with its first letter capitalized and the rest
\* lower-cased, whatever the letter case given.
C8_PatchBody ==
  client.op = "execute" =>
    LET request == client.requests[1]
        given == client.args.executionType
    IN  /\ request.method = "patch"
        /\ request.headers = [ContentType |-> "application/merge-patch+json"]
        /\ DOMAIN request.data = {"spec"}
        /\ DOMAIN request.data.spec = {"executionType"}
        /\ request.data.spec.executionType
             = toUpperCase(SubSeq(given, 1, 1)) \o toLowerCase(SubSeq(given, 2, Len(given)))

\* the answer is the store's not-found signal
NotFound(seen) == ~seen.ok /\ "status" \in DOMAIN seen.error /\ seen.error.status = 404

\* C9 (as stated): every exposed operation of the controller client and of
\* the user model performs at most one outbound network call per
\* invocation, whatever its outcome.
C9_AtMostOneCall ==
  /\ client # Idle => Len(client.requests) <= 1
  /\ user # Idle => Len(user.calls) <= 1

\* C9 (amended): every exposed operation performs at most one outbound call
\* per invocation, except createUserIfNonExistent, which performs its read
\* and, only when that read failed with status 404, one create; no call is
\* issued twice.
C9_NoRetry ==
  /\ client # Idle => Len(client.requests) <= 1
  /\ user # Idle =>
       /\ user.op # "createUserIfNonExistent" => Len(user.calls) <= 1
       /\ user.op = "createUserIfNonExistent" =>
            /\ Len(user.calls) \in {1, 2}
            /\ user.calls[1].kind = "read"
            /\ Len(user.calls) = 2 =>
                 /\ NotFound(user.replies[1])
                 /\ user.calls[2].kind = "create"
       /\ \A p \in Procs :
            inflight[p].pc = "creating" =>
              /\ Len(inflight[p].calls) = 1
              /\ NotFound(inflight[p].replies[1])

\* witness of C9: a createUserIfNonExistent that read, then created
C9_Witness ==
  /\ user # Idle
  /\ user.op = "createUserIfNonExistent"
  /\ Len(user.calls) = 2
  /\ user.replies[2].ok
  /\ user.changed

\* C10: under any interleaving, createUserIfNonExistent issues a create for
\* its username only after its own read of that username failed with status
\* 404; when the read fails otherwise it raises that error and creates
\* nothing; when the read succeeds it writes nothing, completes without
\* error and leaves the store as it is; it never updates or deletes.
C10_CreateIfNonExistent ==
  /\ user.op = "createUserIfNonExistent" =>
       LET read == [kind |-> "read", username |-> user.args.username]
           create == [ kind |-> "create", username |-> user.args.username,
                       value |-> user.args.userValue ]
           first == user.replies[1]
       IN  /\ user.calls \in {<<read>>, <<read, create>>}
           /\ user.calls = <<read, create>> => NotFound(first)
           /\ (~first.ok /\ ~NotFound(first)) =>
                /\ user.calls = <<read>>
                /\ user.outcome = Throw(first.error)
                /\ ~user.changed
           /\ first.ok =>
                /\ user.calls = <<read>>
                /\ user.outcome.kind = "return"
                /\ ~user.changed
  /\ \A p \in Procs :
       inflight[p].pc = "creating" =>
         /\ inflight[p].calls = <<[kind |-> "read", username |-> inflight[p].args.username]>>
         /\ NotFound(inflight[p].replies[1])

\* witness of C10: the read found nobody, another caller created the user
\* in between, and the create was refused
C10_Witness ==
  /\ user.op = "createUserIfNonExistent"
  /\ Len(user.calls) = 2
  /\ NotFound(user.replies[1])
  /\ ~user.replies[2].ok
  /\ "status" \in DOMAIN user.replies[2].error
  /\ user.replies[2].error.status = 409
  /\ user.outcome.kind = "throw"

\* the elements of an array
Elements(array) == {array[i] : i \in 1..Len(array)}

\* C11: for a stored user, checkUserGroup returns true exactly when the
\* user's grouplist holds the group or the administrative group, and
\* checkUserVC returns true exactly when extension.virtualCluster holds the
\* virtual cluster or the grouplist holds the administrative group; the
\* result is false otherwise, and a failed read, not-found included, is
\* raised unchanged and never reported as false.
C11_Membership ==
  user.op \in {"checkUserGroup", "checkUserVC"} =>
    LET seen == user.replies[1]
        granted ==
          IF user.op = "checkUserGroup"
            THEN user.args.groupname \in Elements(seen.value.grouplist)
                   \/ adminGroup \in Elements(seen.value.grouplist)
            ELSE user.args.vcName \in Elements(seen.value.extension.virtualCluster)
                   \/ adminGroup \in Elements(seen.value.grouplist)
    IN  /\ user.calls = <<[kind |-> "read", username |-> user.args.username]>>
        /\ seen.ok =>
             /\ user.outcome.kind = "return"
             /\ user.outcome.value \in BOOLEAN
             /\ user.outcome.value <=> granted
        /\ ~seen.ok =>
             /\ user.outcome.kind = "throw"
             /\ user.outcome.error = seen.error

\* witness of C11: an administrator outside virtual cluster vc2 was granted it
C11_Witness ==
  /\ user.op = "checkUserVC"
  /\ user.replies[1].ok
  /\ user.args.vcName = "vc2"
  /\ "vc2" \notin Elements(user.replies[1].value.extension.virtualCluster)
  /\ adminGroup \in Elements(user.replies[1].value.grouplist)
  /\ user.outcome = Return(TRUE)

\* encodeName sends the identifier through the lossy path
LossyPath(id) == startsWith(id, unknown) \/ ~includes(id, Tilde)

\* C12 (as stated; the code breaks it for the name 'hexa'): an identifier
\* that encodeName sends through the lossy path decodes to its encoded name
\* unchanged, and decodeName strips the marker and hex-decodes only names
\* that encodeName produced on the lossless path.
C12_LossyUnchanged ==
  codec.decoded # NotYet =>
    /\ LossyPath(codec.name) => codec.decoded = codec.encoded
    /\ startsWith(codec.encoded, hex) => ~LossyPath(codec.name)

====
